---- MODULE Spec2Model ----
\* Model of the petalsonic real-time pipeline: the host thread (T1) enqueues
\* playback commands through PetalSonicWorld, the device callback (T3)
\* dispatches them onto the active-playback map, and the render thread (T2)
\* runs mixer passes over that map, pushes blocks to the ring buffer and
\* emits SourceCompleted / SourceLooped events.
EXTENDS Naturals, Integers, Sequences, FiniteSets, TLC

\* ---------------------------------------------------------------- bounds
NumIds == 1
MaxFrames == 3
MaxCmds == 3
MaxEnds == 2
\* frames the device asks for in one callback
DevFrames == 5
\* frames per render block at world rate (desc.block_size, scaled down)
BlockSize == 2
\* RING_BUFFER_SIZE_MIN, scaled down with the block size
RingBufferSizeMin == 8
\* largest device rate / world rate (whole ratios)
MaxRatio == 6
\* frames the device callback may consume in a run
MaxProcessed == 5
\* calls of start() that get past the is_running test
MaxStarts == 3
\* calls of register_audio in a run
MaxMint == 2
\* host threads that call register_audio
NumRegThreads == 2
\* sources of the runs that look at the contents of the world block
NumMixIds == 2
\* sample rates are 0..MaxRate (in units of one base rate)
MaxRate == 2
\* channel counts are 0..MaxChannels
MaxChannels == 2
\* frames given to one process_interleaved call, and frames of a registered buffer
MaxIn == 3
\* frames of the destination of one process_interleaved call
MaxCap == 3
\* input frames the DSP asks for beyond chunk / ratio, and its delay, at most
MaxMargin == 1
\* frames fed to a streaming resampler in a run
MaxFed == 5
\* chunk_size of the batch resampler (1024), scaled down
BatchChunk == 2

Ids == 1..NumIds

\* every SourceId a host call may name: the ids register_audio can mint and
\* one (MaxMint) that it never mints
AllIds == 0..MaxMint

RegThreads == 1..NumRegThreads

MixIds == 1..NumMixIds
Modes == {"Once", "Infinite"}
Cfgs == {"NonSpatial", "Spatial"}

Min(a, b) == IF a < b THEN a ELSE b

Max(a, b) == IF a > b THEN a ELSE b

\* create_stream: ring_buffer_size = RING_BUFFER_SIZE_MIN.max(block_size * 8)
RingCap == Max(RingBufferSizeMin, BlockSize * 8)

TargetBufferFillNone == RingCap + 1

\* render_thread_loop: target_buffer_fill = block_size * 4
TargetBufferFill == BlockSize * 4

VARIABLES
    storage,     \* world.audio_data_storage: id -> total frames of the buffer
    srcCfg,      \* world.source_configs: id -> config
    hasSpatial,  \* engine.spatial_processor is Some
    cmdq,        \* the command channel (FIFO)
    active,      \* engine.active_playback: id -> PlaybackInstance
    lock,        \* holder of the active_playback mutex: "free", "T2", "T3"
    t3pc,        \* device callback position: "recv" or "apply"
    t3cmd,       \* command the callback holds between try_recv and apply
    t2pc,        \* render thread position
    needed,      \* generate_samples: samples_needed
    generated,   \* generate_samples: total_generated
    pendC,       \* generate_samples: all_completed_sources (count per id)
    pendL,       \* generate_samples: all_looped_sources (count per id)
    ring,        \* ring buffer occupancy (frames)
    completed,   \* SourceCompleted events sent, per id
    looped,      \* SourceLooped events sent, per id
    issued,      \* history: commands the host issued, in program order
    endsOnce,    \* history: times a Once instance's cursor reached the end
    endsInf,     \* history: times an Infinite instance's cursor reached the end
    lastCmd,     \* history: last Play / Stop / StopAll applied, per id
    outBlocks,   \* history: mixer passes in which the id contributed frames
    passErr,     \* history: the spatial processor returned Err in this pass
    regLock,     \* holder of the audio_data_storage mutex: "free" or "T1"
    listenerLock, \* holder of the listener mutex: "free" or "T1"
    t3Waited,    \* history: the callback called lock() on a held mutex
    t2Waited,    \* history: the render thread called lock() on a held mutex
    ratio,       \* device sample rate / world sample rate
    pushFailed,  \* history: a try_push found the ring buffer full
    framesProcessed, \* engine.frames_processed
    popped,      \* history: frames taken out of the ring buffer
    isRunning,   \* engine.is_running
    streamOpen,  \* engine.stream is Some
    renderHandle, \* engine.render_thread is Some
    t2Alive,     \* the render thread of the current start is alive
    leaked,      \* render threads alive whose JoinHandle was dropped
    shutdown,    \* engine.render_shutdown
    stopPc,      \* engine.stop(): "none", or "join" while it waits in join()
    starts,      \* history: calls of start() that got past the is_running test
    hostRet,     \* the last host call and whether it returned Ok
    nextId,      \* world.next_source_id
    returned,    \* history: ids register_audio has returned, in order
    regPc,       \* position of each host thread inside a call on the world
    regId,       \* the id that call minted or was given
    block,       \* generate_samples: the world block of the pass under way
    rs,          \* a StreamingResampler, or the result of its construction
    io,          \* the last call on audio data: its input and its result
    effects      \* spatial_processor.effects_manager.effects: ids that have effects

vars == <<storage, srcCfg, hasSpatial, cmdq, active, lock, t3pc, t3cmd, t2pc,
          needed, generated, pendC, pendL, ring, completed, looped,
          issued, endsOnce, endsInf, lastCmd,
          outBlocks, passErr, regLock, listenerLock, t3Waited, t2Waited,
          ratio, effects, pushFailed, framesProcessed, popped, isRunning, streamOpen,
          renderHandle, t2Alive, leaked, shutdown, stopPc, starts, hostRet,
          nextId, returned, regPc, regId, block, rs, io>>

syncVars == <<regLock, listenerLock, t3Waited, t2Waited>>

lifeVars == <<isRunning, streamOpen, renderHandle, t2Alive, leaked, shutdown,
              stopPc, starts>>

mintVars == <<nextId, returned, regPc, regId>>

countVars == <<framesProcessed, popped>>

worldVars == <<storage, srcCfg, hasSpatial>>

calcVars == <<rs, io>>

pipeVars == <<cmdq, active, lock, t3pc, t3cmd, t2pc, needed, generated, pendC,
              pendL, ring, completed, looped, issued, endsOnce, endsInf,
              lastCmd, outBlocks, passErr>>

\* ------------------------------------------------------------- commands
Cmd(op, id, cfg, mode) == [op |-> op, id |-> id, cfg |-> cfg, mode |-> mode]
PlayCmd(id, cfg, mode) == Cmd("Play", id, cfg, mode)
PauseCmd(id) == Cmd("Pause", id, "NonSpatial", "Once")
StopCmd(id) == Cmd("Stop", id, "NonSpatial", "Once")
StopAllCmd == Cmd("StopAll", 0, "NonSpatial", "Once")
UpdateConfigCmd(id, cfg) == Cmd("UpdateConfig", id, cfg, "Once")
NoCmd == Cmd("None", 0, "NonSpatial", "Once")

\* ------------------------------------------------- PlaybackInstance
NewInstance(total, cfg, mode) ==
    [cur |-> 0, total |-> total, state |-> "Stopped", cfg |-> cfg,
     mode |-> mode, flag |-> FALSE]

Resume(inst) == [inst EXCEPT !.state = "Playing"]

Reset(inst) == [inst EXCEPT !.cur = 0]

PlayFromBeginning(inst) == Resume(Reset(inst))

SetLoopMode(inst, mode) == [inst EXCEPT !.mode = mode]

PauseInst(inst) == [inst EXCEPT !.state = "Paused"]

StopInstReset(inst) == [inst EXCEPT !.state = "Stopped", !.cur = 0]

\* PlaybackInstance::stop (no command arm calls it)
StopInst(inst) == [inst EXCEPT !.state = "Stopped"]

IsFinished(inst) == inst.cur >= inst.total

UpdatePositionNoClamp(cur, total) == cur

UpdatePosition(cur, total) == Min(cur, total)

AdvanceAndCheckCompletionWrap(inst, k) ==
    LET c == UpdatePosition(inst.cur + k, inst.total)
    IN  IF c >= inst.total
        THEN IF inst.mode = "Infinite"
             THEN [inst EXCEPT !.cur = 0]
             ELSE [inst EXCEPT !.cur = c, !.flag = TRUE, !.state = "Stopped"]
        ELSE [inst EXCEPT !.cur = c]

AdvanceAndCheckCompletion(inst, k) ==
    LET c == UpdatePosition(inst.cur + k, inst.total)
    IN  IF c >= inst.total
        THEN [inst EXCEPT !.cur = c, !.flag = TRUE, !.state = "Stopped"]
        ELSE [inst EXCEPT !.cur = c]

FramesFilledWhole(inst) ==
    IF inst.state # "Playing" THEN 0 ELSE BlockSize

\* frames fill_buffer mixes into a block of BlockSize frames
FramesFilled(inst) ==
    IF inst.state # "Playing" THEN 0
    ELSE IF inst.cur >= inst.total THEN 0
    ELSE Min(BlockSize, inst.total - inst.cur)

FillBuffer(inst) ==
    IF FramesFilled(inst) > 0
    THEN AdvanceAndCheckCompletion(inst, FramesFilled(inst))
    ELSE inst

\* SpatialProcessor::fill_input_buffer: copies what is left, advances frame_size
SpatialFrames(inst) ==
    IF inst.cur >= inst.total THEN 0 ELSE Min(BlockSize, inst.total - inst.cur)

FillInputBuffer(inst) == AdvanceAndCheckCompletion(inst, BlockSize)

CheckAndClearEndFlagKeep(inst) == inst

CheckAndClearEndFlag(inst) == [inst EXCEPT !.flag = FALSE]

\* ------------------------------------------------- command dispatch
Restrict(f, S) == [i \in S |-> f[i]]

\* PlaybackCommand::Play arm, the buffer being present in the registry
ApplyPlayKeepConfig(act, cmd, total) ==
    LET inst == IF cmd.id \in DOMAIN act THEN act[cmd.id]
                ELSE NewInstance(total, cmd.cfg, cmd.mode)
        upd == PlayFromBeginning(SetLoopMode(inst, cmd.mode))
    IN  [i \in DOMAIN act \cup {cmd.id} |-> IF i = cmd.id THEN upd ELSE act[i]]

ApplyPlay(act, cmd, total) ==
    LET inst == IF cmd.id \in DOMAIN act THEN act[cmd.id]
                ELSE NewInstance(total, cmd.cfg, cmd.mode)
        upd == PlayFromBeginning(SetLoopMode([inst EXCEPT !.cfg = cmd.cfg], cmd.mode))
    IN  [i \in DOMAIN act \cup {cmd.id} |-> IF i = cmd.id THEN upd ELSE act[i]]

ApplyPause(act, cmd) ==
    IF cmd.id \in DOMAIN act
    THEN [act EXCEPT ![cmd.id] = PauseInst(act[cmd.id])]
    ELSE act

ApplyStopKeep(act, cmd) ==
    IF cmd.id \in DOMAIN act
    THEN [act EXCEPT ![cmd.id].state = "Stopped"]
    ELSE act

ApplyStop(act, cmd) == Restrict(act, DOMAIN act \ {cmd.id})

ApplyUpdateConfig(act, cmd) ==
    IF cmd.id \in DOMAIN act
    THEN [act EXCEPT ![cmd.id].cfg = cmd.cfg]
    ELSE act

ApplyStopAll(act) == Restrict(act, {})

ApplyCommandPlayUnchecked(act, cmd, store) ==
    CASE cmd.op = "Play" ->
            ApplyPlay(act, cmd, IF cmd.id \in DOMAIN store THEN store[cmd.id] ELSE 0)
      [] cmd.op = "Pause" -> ApplyPause(act, cmd)
      [] cmd.op = "Stop" -> ApplyStop(act, cmd)
      [] cmd.op = "UpdateConfig" -> ApplyUpdateConfig(act, cmd)
      [] cmd.op = "StopAll" -> ApplyStopAll(act)
      [] OTHER -> act

\* one iteration of process_playback_commands after the lock was taken
ApplyCommand(act, cmd, store) ==
    CASE cmd.op = "Play" ->
            IF cmd.id \in DOMAIN store THEN ApplyPlay(act, cmd, store[cmd.id]) ELSE act
      [] cmd.op = "Pause" -> ApplyPause(act, cmd)
      [] cmd.op = "Stop" -> ApplyStop(act, cmd)
      [] cmd.op = "UpdateConfig" -> ApplyUpdateConfig(act, cmd)
      [] cmd.op = "StopAll" -> ApplyStopAll(act)
      [] OTHER -> act

\* ------------------------------------------------------------ mixer
PlayingIdsAnyState(act) == DOMAIN act

\* the partition loop: only Playing instances are processed
PlayingIds(act) == {i \in DOMAIN act : act[i].state = "Playing"}

SpatialIds(act) == {i \in PlayingIds(act) : act[i].cfg = "Spatial"}

NonSpatialIds(act) == {i \in PlayingIds(act) : act[i].cfg = "NonSpatial"}

\* the two fill loops: every non-spatial Playing instance through fill_buffer,
\* the spatial instances in S through the processor's fill_input_buffer
MixFilled(act, S) ==
    [i \in DOMAIN act |->
        IF i \in NonSpatialIds(act) THEN FillBuffer(act[i])
        ELSE IF i \in S THEN FillInputBuffer(act[i])
        ELSE act[i]]

\* process_single_source creates the effects of a source that has none
\* before it fills the input buffer; nothing removes an entry
EffectsAfter(fx, S) == fx \cup S

\* ids whose pass contributed at least one frame to the world block
Contributors(act, S, ok) ==
    {i \in NonSpatialIds(act) : FramesFilled(act[i]) > 0}
    \cup {i \in S : ok /\ SpatialFrames(act[i]) > 0}

\* instances the pass consumed frames from
Advanced(act, S) == {i \in NonSpatialIds(act) : FramesFilled(act[i]) > 0} \cup S

\* instances whose cursor the pass moved to the end of the buffer
ReachedEnd(act, S) ==
    {i \in Advanced(act, S) : act[i].cur + BlockSize >= act[i].total}

EndFlagArmResume(inst) ==
    IF inst.flag
    THEN IF inst.mode = "Once"
         THEN CheckAndClearEndFlag(inst)
         ELSE Resume(CheckAndClearEndFlag(inst))
    ELSE inst

\* the end-flag loop
EndFlagArm(inst) ==
    IF inst.flag
    THEN IF inst.mode = "Once"
         THEN CheckAndClearEndFlag(inst)
         ELSE PlayFromBeginning(CheckAndClearEndFlag(inst))
    ELSE inst

MixChecked(act) == [i \in DOMAIN act |-> EndFlagArm(act[i])]

CompletedSourcesAnyMode(act) == {i \in DOMAIN act : act[i].flag}

CompletedSources(act) == {i \in DOMAIN act : act[i].flag /\ act[i].mode = "Once"}

LoopedSources(act) == {i \in DOMAIN act : act[i].flag /\ act[i].mode = "Infinite"}

\* active_playback.retain(|_, instance| !instance.info.is_finished())
MixRetained(act) == Restrict(act, {i \in DOMAIN act : ~IsFinished(act[i])})

\* ------------------------------------------------- world block contents
\* A frame of the world block is the set of the terms summed into it; the
\* empty set is silence (0.0).
Term(kind, id, frame) == <<kind, id, frame>>

\* world_buffer.fill(0.0)
ZeroBlock == [i \in 1..BlockSize |-> {}]

\* fill_buffer of every non-spatial Playing instance: buffer[i] += sample,
\* for the frames the instance still has
NonSpatialMix(act) ==
    [i \in 1..BlockSize |->
        {Term("ns", a, act[a].cur + i - 1) :
            a \in {b \in NonSpatialIds(act) : i <= FramesFilled(act[b])}}]

\* the binaural block decoded from the sum of the encoded spatial sources:
\* fill_input_buffer reads samples[cur + i] while it is inside the buffer
SpatialOut(act) ==
    [i \in 1..BlockSize |->
        {Term("sp", a, act[a].cur + i - 1) :
            a \in {b \in SpatialIds(act) : i <= SpatialFrames(act[b])}}]

SpatialSummed(mix, out) == [i \in 1..BlockSize |-> mix[i] \cup out[i]]

\* process_spatial_sources, copy loop: output_buffer[i] = binaural[i]
SpatialCopied(mix, out) == out

MixBlockSpatialAlways(act, sp, err) ==
    SpatialCopied(NonSpatialMix(act), SpatialOut(act))

\* the world block after the two fill loops of a pass: the spatial output is
\* copied only when a processor is there, the spatial list is not empty and
\* process_spatial_sources got to its copy loop
MixBlock(act, sp, err) ==
    IF sp /\ ~err /\ SpatialIds(act) # {}
    THEN SpatialCopied(NonSpatialMix(act), SpatialOut(act))
    ELSE NonSpatialMix(act)

\* --------------------------------------------------------------- state
EmptyMap == [i \in {} |-> 0]

\* no resampler constructed yet
NoResampler == [kind |-> "none"]

\* no call on audio data made yet
NoCall == [fn |-> "none"]

ZeroCount == [i \in Ids |-> 0]

Bump(cnt, S) == [i \in Ids |-> IF i \in S THEN cnt[i] + 1 ELSE cnt[i]]

\* HashMap::insert
MapPut(f, k, v) == [i \in DOMAIN f \cup {k} |-> IF i = k THEN v ELSE f[i]]

Ret(op, id, ok) == [op |-> op, id |-> id, ok |-> ok]

\* empty channel, nothing rendered, no lock held, no call under way
PipelineIdle ==
    /\ effects = {}
    /\ cmdq = <<>>
    /\ lock = "free"
    /\ t3pc = "recv"
    /\ t3cmd = NoCmd
    /\ t2pc = "idle"
    /\ needed = 0
    /\ generated = 0
    /\ pendC = ZeroCount
    /\ pendL = ZeroCount
    /\ ring = 0
    /\ completed = ZeroCount
    /\ looped = ZeroCount
    /\ issued = <<>>
    /\ endsOnce = ZeroCount
    /\ endsInf = ZeroCount
    /\ lastCmd = [i \in Ids |-> "None"]
    /\ outBlocks = ZeroCount
    /\ passErr = FALSE
    /\ regLock = "free"
    /\ listenerLock = "free"
    /\ t3Waited = FALSE
    /\ t2Waited = FALSE
    /\ pushFailed = FALSE
    /\ framesProcessed = 0
    /\ popped = 0
    /\ leaked = 0
    /\ stopPc = "none"
    /\ regPc = [t \in RegThreads |-> "idle"]
    /\ regId = [t \in RegThreads |-> 0]
    /\ block = ZeroBlock
    /\ rs = NoResampler
    /\ io = NoCall

\* PetalSonicWorld::new and PetalSonicEngine::new: empty channel, empty
\* active map, nothing rendered, no lock held
Constructed ==
    /\ active = EmptyMap
    /\ PipelineIdle

\* the engine before the first start()
NotStarted ==
    /\ isRunning = FALSE
    /\ streamOpen = FALSE
    /\ renderHandle = FALSE
    /\ t2Alive = FALSE
    /\ shutdown = FALSE
    /\ starts = 0

\* the engine after one successful start()
Started ==
    /\ isRunning = TRUE
    /\ streamOpen = TRUE
    /\ renderHandle = TRUE
    /\ t2Alive = TRUE
    /\ shutdown = FALSE
    /\ starts = 1

\* the sources 1..NumIds registered (id 0 registered and removed before)
Registered(frames, cfgs) ==
    /\ storage \in [Ids -> frames]
    /\ srcCfg \in [Ids -> cfgs]
    /\ nextId = NumIds + 1
    /\ returned = [k \in 1..(NumIds + 1) |-> k - 1]

\* sources registered, engine started, world rate equal to the device rate
Init ==
    /\ Registered(0..MaxFrames, Cfgs)
    /\ hasSpatial \in BOOLEAN
    /\ ratio = 1
    /\ Constructed
    /\ Started
    /\ hostRet = Ret("start", 0, TRUE)

\* the last Play / Stop / StopAll applied to each id
NextLastCmd(last, cmd, store) ==
    [i \in Ids |->
        IF cmd.op = "Play" /\ cmd.id = i /\ i \in DOMAIN store
            THEN IF cmd.mode = "Once" THEN "PlayOnce" ELSE "PlayInfinite"
        ELSE IF (cmd.op = "Stop" /\ cmd.id = i) \/ cmd.op = "StopAll" THEN "Stop"
        ELSE last[i]]

\* ------------------------------------------------------ host thread (T1)
Send(cmd) ==
    /\ Len(issued) < MaxCmds
    /\ cmdq' = Append(cmdq, cmd)
    /\ issued' = Append(issued, cmd)
    /\ hostRet' = Ret(cmd.op, cmd.id, TRUE)
    /\ UNCHANGED <<storage, hasSpatial, active, lock, t3pc, t3cmd, t2pc, needed,
                   generated, pendC, pendL, ring, completed, looped,  endsOnce, endsInf, lastCmd,
                   outBlocks, passErr>>
    /\ UNCHANGED <<syncVars, lifeVars, mintVars, countVars, ratio, effects, block, calcVars, pushFailed>>

\* PetalSonicWorld::play, the id being in the registry; the stored config,
\* or the default one when none is stored
Play(id, mode) ==
    /\ id \in DOMAIN storage
    /\ Send(PlayCmd(id, IF id \in DOMAIN srcCfg THEN srcCfg[id] ELSE "NonSpatial", mode))
    /\ UNCHANGED srcCfg

\* PetalSonicWorld::pause
Pause(id) == Send(PauseCmd(id)) /\ UNCHANGED srcCfg

\* PetalSonicWorld::stop
Stop(id) == Send(StopCmd(id)) /\ UNCHANGED srcCfg

\* PetalSonicWorld::stop_all
StopAll == Send(StopAllCmd) /\ UNCHANGED srcCfg

\* PetalSonicWorld::update_source_config, the id being in the registry
UpdateSourceConfig(id, cfg) ==
    /\ id \in DOMAIN storage
    /\ srcCfg' = MapPut(srcCfg, id, cfg)
    /\ Send(UpdateConfigCmd(id, cfg))

\* -------------------------------------------------- device callback (T3)
\* audio_callback runs while the stream exists and goes past its first test
\* only while is_running is set
CallbackRuns == streamOpen /\ isRunning

\* process_playback_commands: try_recv took a command but the try_lock on the
\* active-playback map failed, so the loop continues with the next command
CallbackRecvContended ==
    /\ CallbackRuns
    /\ t3pc = "recv"
    /\ cmdq # <<>>
    /\ lock # "free"
    /\ cmdq' = Tail(cmdq)
    /\ UNCHANGED <<storage, srcCfg, hasSpatial, active, lock, t3pc, t3cmd, t2pc,
                   needed, generated, pendC, pendL, ring, completed, looped,
                   issued, endsOnce, endsInf, lastCmd, outBlocks, passErr>>
    /\ UNCHANGED <<syncVars, lifeVars, mintVars, countVars, ratio, effects, block, calcVars, pushFailed, hostRet>>

\* process_playback_commands: try_recv took a command and try_lock succeeded
CallbackRecvLocked ==
    /\ CallbackRuns
    /\ t3pc = "recv"
    /\ cmdq # <<>>
    /\ lock = "free"
    /\ cmdq' = Tail(cmdq)
    /\ t3cmd' = Head(cmdq)
    /\ lock' = "T3"
    /\ t3pc' = "apply"
    /\ UNCHANGED <<storage, srcCfg, hasSpatial, active, t2pc, needed, generated,
                   pendC, pendL, ring, completed, looped, issued,  endsOnce, endsInf, lastCmd,
                   outBlocks, passErr>>
    /\ UNCHANGED <<syncVars, lifeVars, mintVars, countVars, ratio, effects, block, calcVars, pushFailed, hostRet>>

\* process_playback_commands: the match on the command, then the guard drops.
\* The Play arm first calls world.get_audio_data, which takes the registry
\* mutex with lock(): the arm goes on only once that mutex is free.
CallbackApply ==
    /\ t3pc = "apply"
    /\ t3cmd.op = "Play" => regLock = "free"
    /\ active' = ApplyCommand(active, t3cmd, storage)
    /\ lastCmd' = NextLastCmd(lastCmd, t3cmd, storage)
    /\ lock' = "free"
    /\ t3cmd' = NoCmd
    /\ t3pc' = "recv"
    /\ UNCHANGED <<storage, srcCfg, hasSpatial, cmdq, t2pc, needed, generated,
                   pendC, pendL, ring, completed, looped, issued, endsOnce, endsInf,
                   outBlocks, passErr>>
    /\ UNCHANGED <<syncVars, lifeVars, mintVars, countVars, ratio, effects, block, calcVars, pushFailed, hostRet>>

ConsumedRequested(r) == DevFrames

\* audio_callback: samples_consumed, the try_pop calls that returned a frame
Consumed(r) == Min(r, DevFrames)

\* audio_callback: the device buffer it writes when the ring buffer holds r
\* frames: a popped frame at each index until try_pop returns nothing, silence
\* at that index and at every later one
CallbackOutput(r) ==
    [i \in 1..DevFrames |-> IF i <= r THEN "frame" ELSE "silence"]

\* audio_callback after the command loop: the pop loop and the fetch_add
CallbackPop ==
    /\ CallbackRuns
    /\ t3pc = "recv"
    /\ cmdq = <<>>
    /\ framesProcessed + Consumed(ring) <= MaxProcessed
    /\ ring' = ring - Cardinality({i \in 1..DevFrames : CallbackOutput(ring)[i] = "frame"})
    /\ popped' = popped + (ring - ring')
    /\ framesProcessed' = framesProcessed + Consumed(ring)
    /\ UNCHANGED <<storage, srcCfg, hasSpatial, cmdq, active, lock, t3pc, t3cmd,
                   t2pc, needed, generated, pendC, pendL, completed, looped,
                   issued, endsOnce, endsInf, lastCmd, outBlocks, passErr>>
    /\ UNCHANGED <<syncVars, lifeVars, mintVars, ratio, effects, block, calcVars, pushFailed, hostRet>>

\* ---------------------------------------------------- render thread (T2)
\* render_thread_loop: the shutdown flag is clear, the listener mutex is free
\* for world.listener() (called when a spatial processor exists), occupancy is
\* below the target and a slot is vacant, so generate_samples is entered
\* (otherwise the iteration only sleeps)
RenderIterate ==
    /\ t2Alive
    /\ ~shutdown
    /\ hasSpatial => listenerLock = "free"
    /\ t2pc = "idle"
    /\ ring < TargetBufferFill
    /\ RingCap - ring > 0
    /\ needed' = Min(RingCap - ring, BlockSize * 2)
    /\ generated' = 0
    /\ t2pc' = "gen"
    /\ UNCHANGED <<storage, srcCfg, hasSpatial, cmdq, active, lock, t3pc, t3cmd,
                   pendC, pendL, ring, completed, looped, issued,  endsOnce, endsInf, lastCmd,
                   outBlocks, passErr>>
    /\ UNCHANGED <<syncVars, lifeVars, mintVars, countVars, ratio, effects, block, calcVars, pushFailed, hostRet>>

\* frames the resampler returns for one world block (whole ratios)
FramesOut == BlockSize * ratio

\* generate_samples after the mixer returned: the world block is resampled
\* and each frame is try_push-ed until the ring buffer is full; the loop ends
\* once samples_needed were pushed
PushBlock ==
    LET pushed == Min(FramesOut, RingCap - ring)
    IN  /\ ring' = ring + pushed
        /\ generated' = generated + pushed
        /\ pushFailed' = (pushFailed \/ pushed < FramesOut)
        /\ t2pc' = IF generated + pushed >= needed THEN "emit" ELSE "gen"

\* mix_playback_instances: try_lock failed, an empty MixResult is returned and
\* the zeroed world block goes on to the resampler
MixLockFail ==
    /\ t2pc = "gen"
    /\ lock # "free"
    /\ PushBlock
    /\ UNCHANGED <<storage, srcCfg, hasSpatial, cmdq, active, lock, t3pc, t3cmd,
                   needed, pendC, pendL, completed, looped, issued, endsOnce, endsInf, lastCmd,
                   outBlocks, passErr>>
    /\ UNCHANGED <<syncVars, lifeVars, mintVars, countVars, ratio, effects, block, calcVars, hostRet>>

\* mix_playback_instances up to the end of the spatial processing: the lock is
\* taken, the instances are partitioned and filled. The spatial processor
\* returns Ok after advancing every spatial instance, or Err after advancing
\* the instances it reached before the failing DSP call.
MixFill ==
    /\ t2pc = "gen"
    /\ lock = "free"
    /\ \A i \in Ids : endsOnce[i] + endsInf[i] < MaxEnds
    /\ \E err \in BOOLEAN, S \in SUBSET SpatialIds(active) :
        /\ ~hasSpatial => (S = {} /\ ~err)
        /\ (hasSpatial /\ ~err) => S = SpatialIds(active)
        /\ err => SpatialIds(active) # {}
        /\ active' = MixFilled(active, S)
        /\ passErr' = err
        /\ block' = MixBlock(active, hasSpatial, err)
        /\ effects' = EffectsAfter(effects, S)
        /\ outBlocks' = Bump(outBlocks, Contributors(active, S, ~err))
        /\ endsOnce' = Bump(endsOnce, {i \in ReachedEnd(active, S) : active[i].mode = "Once"})
        /\ endsInf' = Bump(endsInf, {i \in ReachedEnd(active, S) : active[i].mode = "Infinite"})
    /\ lock' = "T2"
    /\ t2pc' = "filled"
    /\ UNCHANGED <<storage, srcCfg, hasSpatial, cmdq, t3pc, t3cmd, needed,
                   generated, pendC, pendL, ring, completed, looped, issued,
                   lastCmd>>
    /\ UNCHANGED <<syncVars, lifeVars, mintVars, countVars, ratio, calcVars, pushFailed, hostRet>>

\* mix_playback_instances: the loop over check_and_clear_end_flag
MixCheck ==
    /\ t2pc = "filled"
    /\ active' = MixChecked(active)
    /\ pendC' = Bump(pendC, CompletedSources(active))
    /\ pendL' = Bump(pendL, LoopedSources(active))
    /\ t2pc' = "checked"
    /\ UNCHANGED <<storage, srcCfg, hasSpatial, cmdq, lock, t3pc, t3cmd, needed,
                   generated, ring, completed, looped, issued,  endsOnce, endsInf, lastCmd,
                   outBlocks, passErr>>
    /\ UNCHANGED <<syncVars, lifeVars, mintVars, countVars, ratio, effects, block, calcVars, pushFailed, hostRet>>

\* mix_playback_instances: retain, then the guard drops with the return and
\* generate_samples hands the block to the resampler and pushes the result;
\* the world block is zeroed again (fill(0.0)) before the next pass reads it
MixRetain ==
    /\ t2pc = "checked"
    /\ active' = MixRetained(active)
    /\ lock' = "free"
    /\ passErr' = FALSE
    /\ block' = ZeroBlock
    /\ PushBlock
    /\ UNCHANGED <<storage, srcCfg, hasSpatial, cmdq, t3pc, t3cmd, needed,
                   pendC, pendL, completed, looped, issued, endsOnce, endsInf, lastCmd, outBlocks>>
    /\ UNCHANGED <<syncVars, lifeVars, mintVars, countVars, ratio, effects, calcVars, hostRet>>

\* render_thread_loop: send the events collected by generate_samples
Emit ==
    /\ t2pc = "emit"
    /\ completed' = [i \in Ids |-> completed[i] + pendC[i]]
    /\ looped' = [i \in Ids |-> looped[i] + pendL[i]]
    /\ pendC' = ZeroCount
    /\ pendL' = ZeroCount
    /\ needed' = 0
    /\ generated' = 0
    /\ t2pc' = "idle"
    /\ UNCHANGED <<storage, srcCfg, hasSpatial, cmdq, active, lock, t3pc, t3cmd,
                   ring, issued,  endsOnce, endsInf, lastCmd, outBlocks, passErr>>
    /\ UNCHANGED <<syncVars, lifeVars, mintVars, countVars, ratio, effects, block, calcVars, pushFailed, hostRet>>

\* ------------------------------------------------------- specification
Next ==
    \/ \E id \in Ids, mode \in Modes : Play(id, mode)
    \/ \E id \in Ids : Pause(id)
    \/ \E id \in Ids : Stop(id)
    \/ StopAll
    \/ \E id \in Ids, cfg \in Cfgs : UpdateSourceConfig(id, cfg)
    \/ CallbackRecvContended
    \/ CallbackRecvLocked
    \/ CallbackApply
    \/ CallbackPop
    \/ RenderIterate
    \/ MixLockFail
    \/ MixFill
    \/ MixCheck
    \/ MixRetain
    \/ Emit

Spec == Init /\ [][Next]_vars

\* ------------------------------------------- rate ratios above one
\* as Init, with one three-frame source and every whole rate ratio
InitRate ==
    /\ Registered({MaxFrames}, Cfgs)
    /\ hasSpatial = TRUE
    /\ ratio \in 1..MaxRatio
    /\ Constructed
    /\ Started
    /\ hostRet = Ret("start", 0, TRUE)

SpecRate == InitRate /\ [][Next]_vars

\* ------------------------------------------- mutexes taken with lock()
\* PetalSonicWorld::contains_audio on a host thread: the registry mutex taken
ContainsAudioLock ==
    /\ regLock = "free"
    /\ regLock' = "T1"
    /\ UNCHANGED <<worldVars, pipeVars, listenerLock, t3Waited, t2Waited,
                   lifeVars, mintVars, countVars, ratio, effects, block, calcVars, pushFailed, hostRet>>

ContainsAudioUnlockAfterActive ==
    /\ regLock = "T1"
    /\ lock = "free"
    /\ regLock' = "free"
    /\ UNCHANGED <<worldVars, pipeVars, listenerLock, t3Waited, t2Waited,
                   lifeVars, mintVars, countVars, ratio, effects, block, calcVars, pushFailed, hostRet>>

\* PetalSonicWorld::contains_audio: the guard drops
ContainsAudioUnlock ==
    /\ regLock = "T1"
    /\ regLock' = "free"
    /\ UNCHANGED <<worldVars, pipeVars, listenerLock, t3Waited, t2Waited,
                   lifeVars, mintVars, countVars, ratio, effects, block, calcVars, pushFailed, hostRet>>

\* PetalSonicWorld::set_listener_pose on a host thread: the listener mutex taken
SetListenerPoseLock ==
    /\ listenerLock = "free"
    /\ listenerLock' = "T1"
    /\ UNCHANGED <<worldVars, pipeVars, regLock, t3Waited, t2Waited,
                   lifeVars, mintVars, countVars, ratio, effects, block, calcVars, pushFailed, hostRet>>

\* PetalSonicWorld::set_listener_pose: the guard drops
SetListenerPoseUnlock ==
    /\ listenerLock = "T1"
    /\ listenerLock' = "free"
    /\ UNCHANGED <<worldVars, pipeVars, regLock, t3Waited, t2Waited,
                   lifeVars, mintVars, countVars, ratio, effects, block, calcVars, pushFailed, hostRet>>

\* process_playback_commands, Play arm: world.get_audio_data calls lock() on
\* the registry mutex while a host thread holds it; the callback waits
CallbackWaitRegistry ==
    /\ t3pc = "apply"
    /\ t3cmd.op = "Play"
    /\ regLock = "T1"
    /\ t3Waited' = TRUE
    /\ UNCHANGED <<worldVars, pipeVars, regLock, listenerLock, t2Waited,
                   lifeVars, mintVars, countVars, ratio, effects, block, calcVars, pushFailed, hostRet>>

\* render_thread_loop: world.listener() calls lock() on the listener mutex
\* while a host thread holds it; the render thread waits
RenderWaitListener ==
    /\ t2Alive
    /\ ~shutdown
    /\ t2pc = "idle"
    /\ hasSpatial
    /\ listenerLock = "T1"
    /\ t2Waited' = TRUE
    /\ UNCHANGED <<worldVars, pipeVars, regLock, listenerLock, t3Waited,
                   lifeVars, mintVars, countVars, ratio, effects, block, calcVars, pushFailed, hostRet>>

InitSync ==
    /\ Registered({MaxFrames}, {"NonSpatial"})
    /\ hasSpatial = TRUE
    /\ ratio = 1
    /\ Constructed
    /\ Started
    /\ hostRet = Ret("start", 0, TRUE)

NextSync ==
    \/ \E id \in Ids, mode \in Modes : Play(id, mode)
    \/ ContainsAudioLock
    \/ ContainsAudioUnlock
    \/ SetListenerPoseLock
    \/ SetListenerPoseUnlock
    \/ CallbackRecvContended
    \/ CallbackRecvLocked
    \/ CallbackWaitRegistry
    \/ CallbackApply
    \/ CallbackPop
    \/ RenderWaitListener
    \/ RenderIterate
    \/ MixLockFail
    \/ MixFill
    \/ MixCheck
    \/ MixRetain
    \/ Emit

SpecSync == InitSync /\ [][NextSync]_vars

\* ------------------------------------------------ engine start and stop
RenderThreads == (IF t2Alive THEN 1 ELSE 0) + leaked

StartPre ==
    /\ stopPc = "none"
    /\ ~isRunning
    /\ starts < MaxStarts

\* PetalSonicEngine::start on a running engine
StartNoop ==
    /\ stopPc = "none"
    /\ isRunning
    /\ hostRet' = Ret("start", 0, TRUE)
    /\ UNCHANGED <<worldVars, pipeVars, syncVars, lifeVars, mintVars, countVars,
                   ratio, effects, block, calcVars, pushFailed>>

\* PetalSonicEngine::start: init_audio_device returns Err
StartFailDevice ==
    /\ StartPre
    /\ starts' = starts + 1
    /\ hostRet' = Ret("start", 0, FALSE)
    /\ UNCHANGED <<worldVars, pipeVars, syncVars, isRunning, streamOpen,
                   renderHandle, t2Alive, leaked, shutdown, stopPc, mintVars,
                   countVars, ratio, effects, block, calcVars, pushFailed>>

\* PetalSonicEngine::start: create_stream has spawned the render thread, then
\* build_output_stream or stream.play() returns Err; the ? operators return
\* and the JoinHandle is dropped with the thread running
StartFailStream ==
    /\ StartPre
    /\ shutdown' = FALSE
    /\ leaked' = leaked + 1
    /\ starts' = starts + 1
    /\ hostRet' = Ret("start", 0, FALSE)
    /\ UNCHANGED <<worldVars, pipeVars, syncVars, isRunning, streamOpen,
                   renderHandle, t2Alive, stopPc, mintVars, countVars, ratio, effects, block, calcVars,
                   pushFailed>>

\* PetalSonicEngine::start returning Ok: shutdown flag reset, a new ring
\* buffer, a new render thread at the top of its loop, the stream playing
StartOk ==
    /\ StartPre
    /\ shutdown' = FALSE
    /\ ring' = 0
    /\ t2pc' = "idle"
    /\ needed' = 0
    /\ generated' = 0
    /\ t2Alive' = TRUE
    /\ renderHandle' = TRUE
    /\ streamOpen' = TRUE
    /\ isRunning' = TRUE
    /\ starts' = starts + 1
    /\ hostRet' = Ret("start", 0, TRUE)
    /\ UNCHANGED <<worldVars, cmdq, active, lock, t3pc, t3cmd, pendC, pendL,
                   completed, looped, issued, endsOnce, endsInf, lastCmd,
                   outBlocks, passErr, syncVars, leaked, stopPc, mintVars,
                   countVars, ratio, effects, block, calcVars, pushFailed>>

\* PetalSonicEngine::stop up to join(): the shutdown flag is set, the stream
\* (if any) is taken and dropped with is_running cleared; stop returns here
\* when there is no JoinHandle
StopSignal ==
    /\ stopPc = "none"
    /\ t3pc = "recv"
    /\ shutdown' = TRUE
    /\ streamOpen' = FALSE
    /\ isRunning' = (IF streamOpen THEN FALSE ELSE isRunning)
    /\ stopPc' = (IF renderHandle THEN "join" ELSE "none")
    /\ hostRet' = (IF renderHandle THEN hostRet ELSE Ret("stop", 0, TRUE))
    /\ UNCHANGED <<worldVars, pipeVars, syncVars, renderHandle, t2Alive, leaked,
                   starts, mintVars, countVars, ratio, effects, block, calcVars, pushFailed>>

\* PetalSonicEngine::stop: join() returns once the joined thread has ended
StopJoin ==
    /\ stopPc = "join"
    /\ ~t2Alive
    /\ renderHandle' = FALSE
    /\ stopPc' = "none"
    /\ hostRet' = Ret("stop", 0, TRUE)
    /\ UNCHANGED <<worldVars, pipeVars, syncVars, isRunning, streamOpen, t2Alive,
                   leaked, shutdown, starts, mintVars, countVars, ratio, effects, block, calcVars,
                   pushFailed>>

\* render_thread_loop: the loop test reads the shutdown flag set; the thread ends
RenderExit ==
    /\ t2Alive
    /\ t2pc = "idle"
    /\ shutdown
    /\ t2Alive' = FALSE
    /\ UNCHANGED <<worldVars, pipeVars, syncVars, isRunning, streamOpen,
                   renderHandle, leaked, shutdown, stopPc, starts, mintVars,
                   countVars, ratio, effects, block, calcVars, pushFailed, hostRet>>

\* render_thread_loop of a thread whose handle was dropped: the same loop test
LeakedExit ==
    /\ leaked > 0
    /\ shutdown
    /\ leaked' = leaked - 1
    /\ UNCHANGED <<worldVars, pipeVars, syncVars, isRunning, streamOpen,
                   renderHandle, t2Alive, shutdown, stopPc, starts, mintVars,
                   countVars, ratio, effects, block, calcVars, pushFailed, hostRet>>

InitLife ==
    /\ Registered({MaxFrames}, {"NonSpatial"})
    /\ hasSpatial = FALSE
    /\ ratio = 1
    /\ Constructed
    /\ NotStarted
    /\ hostRet = Ret("new", 0, TRUE)

NextLife ==
    \/ StartNoop
    \/ StartFailDevice
    \/ StartFailStream
    \/ StartOk
    \/ StopSignal
    \/ StopJoin
    \/ RenderExit
    \/ LeakedExit
    \/ \E id \in Ids, mode \in Modes : Play(id, mode)
    \/ CallbackRecvContended
    \/ CallbackRecvLocked
    \/ CallbackApply
    \/ CallbackPop
    \/ RenderIterate
    \/ MixLockFail
    \/ MixFill
    \/ MixCheck
    \/ MixRetain
    \/ Emit

SpecLife == InitLife /\ [][NextLife]_vars

\* ------------------------------------------------------ source registry
MintNextSame(n) == n

\* register_audio: *next_id += 1
MintNext(n) == n + 1

\* register_audio: the id is read and the counter incremented under the
\* next_source_id mutex
RegisterMint(t) ==
    /\ regPc[t] = "idle"
    /\ nextId < MaxMint
    /\ regId' = [regId EXCEPT ![t] = nextId]
    /\ nextId' = MintNext(nextId)
    /\ regPc' = [regPc EXCEPT ![t] = "data"]
    /\ UNCHANGED <<worldVars, pipeVars, syncVars, lifeVars, returned, countVars,
                   ratio, effects, block, calcVars, pushFailed, hostRet>>

\* register_audio: audio_data_storage.insert
RegisterInsertData(t) ==
    /\ regPc[t] = "data"
    /\ storage' = MapPut(storage, regId[t], MaxFrames)
    /\ regPc' = [regPc EXCEPT ![t] = "config"]
    /\ UNCHANGED <<srcCfg, hasSpatial, pipeVars, syncVars, lifeVars, nextId,
                   returned, regId, countVars, ratio, effects, block, calcVars, pushFailed, hostRet>>

\* register_audio: source_configs.insert and the return of Ok(id)
RegisterInsertConfig(t, cfg) ==
    /\ regPc[t] = "config"
    /\ srcCfg' = MapPut(srcCfg, regId[t], cfg)
    /\ returned' = Append(returned, regId[t])
    /\ regPc' = [regPc EXCEPT ![t] = "idle"]
    /\ hostRet' = Ret("register", regId[t], TRUE)
    /\ UNCHANGED <<storage, hasSpatial, pipeVars, syncVars, lifeVars, nextId,
                   regId, countVars, ratio, effects, block, calcVars, pushFailed>>

\* PetalSonicWorld::remove_audio_data
RemoveAudioData(id) ==
    /\ srcCfg' = Restrict(srcCfg, DOMAIN srcCfg \ {id})
    /\ storage' = Restrict(storage, DOMAIN storage \ {id})
    /\ hostRet' = Ret("remove", id, id \in DOMAIN storage)
    /\ UNCHANGED <<hasSpatial, pipeVars, syncVars, lifeVars, mintVars, countVars,
                   ratio, effects, block, calcVars, pushFailed>>

PlayUnchecked(id, mode) ==
    /\ Send(PlayCmd(id, IF id \in DOMAIN srcCfg THEN srcCfg[id] ELSE "NonSpatial", mode))
    /\ UNCHANGED srcCfg

\* PetalSonicWorld::play: contains_audio is false, Err is returned
PlayUnknown(id, mode) ==
    /\ id \notin DOMAIN storage
    /\ hostRet' = Ret("Play", id, FALSE)
    /\ UNCHANGED <<worldVars, pipeVars, syncVars, lifeVars, mintVars, countVars,
                   ratio, effects, block, calcVars, pushFailed>>

\* PetalSonicWorld::update_source_config: contains_audio is false, Err is returned
UpdateSourceConfigUnknown(id, cfg) ==
    /\ id \notin DOMAIN storage
    /\ hostRet' = Ret("UpdateConfig", id, FALSE)
    /\ UNCHANGED <<worldVars, pipeVars, syncVars, lifeVars, mintVars, countVars,
                   ratio, effects, block, calcVars, pushFailed>>

\* PetalSonicWorld::new, and no engine started
InitWorld ==
    /\ storage = EmptyMap
    /\ srcCfg = EmptyMap
    /\ nextId = 0
    /\ returned = <<>>
    /\ hasSpatial = TRUE
    /\ ratio = 1
    /\ Constructed
    /\ NotStarted
    /\ hostRet = Ret("new", 0, TRUE)

NextWorld ==
    \/ \E t \in RegThreads : RegisterMint(t)
    \/ \E t \in RegThreads : RegisterInsertData(t)
    \/ \E t \in RegThreads, cfg \in Cfgs : RegisterInsertConfig(t, cfg)
    \/ \E id \in AllIds : RemoveAudioData(id)
    \/ \E id \in AllIds, mode \in Modes : Play(id, mode)
    \/ \E id \in AllIds, mode \in Modes : PlayUnknown(id, mode)
    \/ \E id \in AllIds, cfg \in Cfgs : UpdateSourceConfig(id, cfg)
    \/ \E id \in AllIds, cfg \in Cfgs : UpdateSourceConfigUnknown(id, cfg)

SpecWorld == InitWorld /\ [][NextWorld]_vars

\* ------------------------------------------- contents of the world block
\* instances a run of Play / Pause / UpdateConfig commands and mixer passes
\* leaves for a three-frame source: at a block boundary, Playing or Paused
MixInstances ==
    [cur : {0, BlockSize}, total : {MaxFrames}, state : {"Playing", "Paused"},
     cfg : Cfgs, mode : Modes, flag : {FALSE}]

\* the engine running with up to NumMixIds instances in the active map, with
\* or without a spatial processor (SpatialProcessor::new may have failed)
InitMix ==
    /\ PipelineIdle
    /\ Started
    /\ hasSpatial \in BOOLEAN
    /\ ratio = 1
    /\ hostRet = Ret("start", 0, TRUE)
    /\ storage = [i \in MixIds |-> MaxFrames]
    /\ nextId = NumMixIds + 1
    /\ returned = [k \in 1..(NumMixIds + 1) |-> k - 1]
    /\ \E D \in SUBSET MixIds :
        /\ active \in [D -> MixInstances]
        /\ srcCfg = [i \in MixIds |-> IF i \in D THEN active[i].cfg ELSE "NonSpatial"]

NextMix ==
    \/ CallbackPop
    \/ RenderIterate
    \/ MixFill
    \/ MixCheck
    \/ MixRetain
    \/ Emit

SpecMix == InitMix /\ [][NextMix]_vars

\* ------------------------------------------------------- resamplers
Rates == 0..MaxRate

CeilDiv(a, b) == (a + b - 1) \div b

\* a frame the DSP computed for a rate conversion: output frame k
Interp(k) == <<"y", k>>

StreamingValidateNoChannels(src, tgt, ch, frames) ==
    IF src = 0 \/ tgt = 0 THEN "AudioFormat"
    ELSE IF frames = 0 THEN "AudioFormat"
    ELSE "Ok"

\* StreamingResampler::new, the tests before FastFixedOut::new
StreamingValidate(src, tgt, ch, frames) ==
    IF src = 0 \/ tgt = 0 THEN "AudioFormat"
    ELSE IF ch = 0 THEN "AudioFormat"
    ELSE IF frames = 0 THEN "AudioFormat"
    ELSE "Ok"

\* BatchResampler::new
BatchValidate(src, tgt, ch) ==
    IF src = 0 \/ tgt = 0 THEN "AudioFormat"
    ELSE IF ch = 0 THEN "AudioFormat"
    ELSE "Ok"

\* FastFixedOut: input frames for a chunk of `chunk` output frames, before
\* the margin the interpolator adds
BaseNeeded(src, tgt, chunk) == CeilDiv(chunk * src, tgt)

\* the values input_frames_next() may take
NeededRange(src, tgt, chunk) ==
    BaseNeeded(src, tgt, chunk)..(BaseNeeded(src, tgt, chunk) + MaxMargin)

\* the StreamingResampler a successful new() returns: empty input buffer; the
\* DSP (FastFixedOut, whatever the two rates are) with its first input need n
\* and its delay d
NewStreaming(src, tgt, ch, chunk, n, d) ==
    [kind |-> "streaming", src |-> src, tgt |-> tgt, ch |-> ch, chunk |-> chunk,
     buf |-> <<>>, needed |-> n, delay |-> d, fed |-> 0, made |-> 0]

\* output frame k of the DSP: at equal rates the interpolation falls on the
\* input frames, delayed by d frames of silence; otherwise a computed value
DspOut(r, k) ==
    IF r.src = r.tgt
    THEN IF k <= r.delay THEN 0 ELSE k - r.delay
    ELSE Interp(k)

\* state of the loop of process_interleaved
LoopState(r, dst, consumed) == [r |-> r, dst |-> dst, consumed |-> consumed]

\* try_produce_resampled_chunk and the loop around it: while the destination
\* has room and the buffer holds input_frames_next() frames, drain them,
\* produce one chunk, copy what fits; ns[k] is the DSP's need after chunk k
RECURSIVE ProduceChunks(_, _, _, _)
ProduceChunks(st, cap, ns, k) ==
    IF Len(st.dst) >= cap THEN st
    ELSE IF Len(st.r.buf) < st.r.needed THEN st
    ELSE LET r == st.r
             produced == [j \in 1..r.chunk |-> DspOut(r, r.made + j)]
             copy == Min(r.chunk, cap - Len(st.dst))
             r2 == [r EXCEPT !.buf = SubSeq(r.buf, r.needed + 1, Len(r.buf)),
                             !.made = r.made + r.chunk,
                             !.needed = ns[k]]
         IN  ProduceChunks(LoopState(r2, st.dst \o SubSeq(produced, 1, copy),
                                     st.consumed + r.needed),
                           cap, ns, k + 1)

ZeroFillOutputNone(dst, cap) ==
    dst \o [i \in 1..(cap - Len(dst)) |-> -1]

\* zero_fill_output: the destination after the frames written
ZeroFillOutput(dst, cap) ==
    dst \o [i \in 1..(cap - Len(dst)) |-> 0]

\* the input frames of a call: the next n frames of the stream
NextInput(r, n) == [i \in 1..n |-> r.fed + i]

\* process_interleaved(input, destination of cap frames)
ProcessResult(r, n, cap, ns) ==
    LET fedr == [r EXCEPT !.buf = r.buf \o NextInput(r, n), !.fed = r.fed + n]
    IN  ProduceChunks(LoopState(fedr, <<>>, 0), cap, ns, 1)

\* StreamingResampler::new(src, tgt, ch, frames)
StreamingNew(src, tgt, ch, frames) ==
    /\ rs.kind = "none"
    /\ io' = [fn |-> "StreamingNew", src |-> src, tgt |-> tgt, ch |-> ch,
              frames |-> frames, out |-> StreamingValidate(src, tgt, ch, frames)]
    /\ IF StreamingValidate(src, tgt, ch, frames) = "Ok"
       THEN \E n \in NeededRange(src, tgt, frames), d \in 0..MaxMargin :
                rs' = NewStreaming(src, tgt, ch, frames, n, d)
       ELSE rs' = rs
    /\ UNCHANGED <<worldVars, pipeVars, syncVars, lifeVars, mintVars, countVars,
                   ratio, effects, block, pushFailed, hostRet>>

\* BatchResampler::new(src, tgt, ch, chunk_size)
BatchNew(src, tgt, ch) ==
    /\ io' = [fn |-> "BatchNew", src |-> src, tgt |-> tgt, ch |-> ch,
              frames |-> 0, out |-> BatchValidate(src, tgt, ch)]
    /\ UNCHANGED <<worldVars, pipeVars, syncVars, lifeVars, mintVars, countVars,
                   ratio, effects, block, pushFailed, hostRet, rs>>

\* StreamingResampler::process_interleaved with n input frames and a
\* destination of cap frames
ProcessInterleaved(n, cap) ==
    /\ rs.kind = "streaming"
    /\ rs.fed + n <= MaxFed
    /\ \E ns \in [1..MaxCap -> NeededRange(rs.src, rs.tgt, rs.chunk)] :
        LET st == ProcessResult(rs, n, cap, ns)
        IN  /\ rs' = st.r
            /\ io' = [fn |-> "process_interleaved",
                      in |-> NextInput(rs, n),
                      dst |-> ZeroFillOutput(st.dst, cap),
                      written |-> Len(st.dst),
                      consumed |-> st.consumed]
    /\ UNCHANGED <<worldVars, pipeVars, syncVars, lifeVars, mintVars, countVars,
                   ratio, effects, block, pushFailed, hostRet>>

\* audio data of n frames: its rate, its channel count and its samples
AudioData(rate, ch, n) == [rate |-> rate, ch |-> ch, samples |-> [i \in 1..n |-> i]]

BatchResampleInterleavedNoBypass(src, tgt, samples) ==
    [k \in 1..((CeilDiv(Len(samples), BatchChunk) * BatchChunk * tgt) \div src) |-> Interp(k)]

\* BatchResampler::resample_interleaved: a copy at equal rates, otherwise every
\* chunk of chunk_size frames (the last one padded) through the DSP
BatchResampleInterleaved(src, tgt, samples) ==
    IF src = tgt THEN samples
    ELSE [k \in 1..((CeilDiv(Len(samples), BatchChunk) * BatchChunk * tgt) \div src) |-> Interp(k)]

\* PetalSonicAudioData::resample: a clone at the same rate; otherwise the
\* error of the resampler's constructor, or the resampled data
AudioResample(data, target) ==
    IF target = data.rate THEN data
    ELSE IF BatchValidate(data.rate, target, data.ch) # "Ok"
         THEN [err |-> BatchValidate(data.rate, target, data.ch)]
    ELSE [rate |-> target, ch |-> data.ch,
          samples |-> BatchResampleInterleaved(data.rate, target, data.samples)]

\* register_audio: what goes into audio_data_storage
ToStore(data, world) ==
    IF data.rate # world THEN AudioResample(data, world) ELSE data

\* PetalSonicWorld::register_audio(data, cfg) in a world of rate `world`,
\* followed by get_audio_data of the id it returned
RegisterAudioData(data, world, cfg) ==
    /\ nextId < MaxMint
    /\ \A t \in RegThreads : regPc[t] = "idle"
    /\ IF "err" \in DOMAIN ToStore(data, world)
       THEN /\ io' = [fn |-> "register_audio", in |-> data, world |-> world,
                      id |-> nextId, out |-> ToStore(data, world)]
            /\ hostRet' = Ret("register", nextId, FALSE)
            /\ UNCHANGED <<storage, srcCfg, nextId, returned>>
       ELSE /\ nextId' = MintNext(nextId)
            /\ storage' = MapPut(storage, nextId, Len(ToStore(data, world).samples))
            /\ srcCfg' = MapPut(srcCfg, nextId, cfg)
            /\ returned' = Append(returned, nextId)
            /\ io' = [fn |-> "register_audio", in |-> data, world |-> world,
                      id |-> nextId, out |-> ToStore(data, world)]
            /\ hostRet' = Ret("register", nextId, TRUE)
    /\ UNCHANGED <<hasSpatial, pipeVars, syncVars, lifeVars, regPc, regId,
                   countVars, ratio, effects, block, pushFailed, rs>>

\* PetalSonicWorld::new, no engine started, no resampler made
InitResample == InitWorld

NextResample ==
    \/ \E src \in Rates, tgt \in Rates, ch \in 0..MaxChannels, frames \in 0..BlockSize :
            StreamingNew(src, tgt, ch, frames)
    \/ \E src \in Rates, tgt \in Rates, ch \in 0..MaxChannels : BatchNew(src, tgt, ch)
    \/ \E n \in 0..MaxIn, cap \in 0..MaxCap : ProcessInterleaved(n, cap)

SpecResample == InitResample /\ [][NextResample]_vars

\* PetalSonicWorld::new
InitRegister == InitWorld

NextRegister ==
    \/ \E rate \in Rates, ch \in 1..MaxChannels, n \in 0..MaxIn,
           world \in 1..MaxRate, cfg \in Cfgs :
            RegisterAudioData(AudioData(rate, ch, n), world, cfg)
    \/ \E id \in AllIds : RemoveAudioData(id)

SpecRegister == InitRegister /\ [][NextRegister]_vars

\* ------------------------------- registry calls on concurrent threads
\* an id register_audio has returned to the host
Known(id) == \E k \in 1..Len(returned) : returned[k] = id

\* update_source_config: contains_audio found the id; the registry guard drops
UpdateConfigCheck(t, id) ==
    /\ regPc[t] = "idle"
    /\ Known(id)
    /\ id \in DOMAIN storage
    /\ regPc' = [regPc EXCEPT ![t] = "update"]
    /\ regId' = [regId EXCEPT ![t] = id]
    /\ UNCHANGED <<worldVars, pipeVars, syncVars, lifeVars, nextId, returned,
                   countVars, ratio, effects, block, calcVars, pushFailed, hostRet>>

\* update_source_config: source_configs.insert, the command is sent, Ok(())
UpdateConfigInsert(t, cfg) ==
    /\ regPc[t] = "update"
    /\ Len(issued) < MaxCmds
    /\ srcCfg' = MapPut(srcCfg, regId[t], cfg)
    /\ cmdq' = Append(cmdq, UpdateConfigCmd(regId[t], cfg))
    /\ issued' = Append(issued, UpdateConfigCmd(regId[t], cfg))
    /\ hostRet' = Ret("UpdateConfig", regId[t], TRUE)
    /\ regPc' = [regPc EXCEPT ![t] = "idle"]
    /\ UNCHANGED <<storage, hasSpatial, active, lock, t3pc, t3cmd, t2pc, needed,
                   generated, pendC, pendL, ring, completed, looped, endsOnce,
                   endsInf, lastCmd, outBlocks, passErr>>
    /\ UNCHANGED <<syncVars, lifeVars, nextId, returned, regId, countVars,
                   ratio, effects, block, calcVars, pushFailed>>

\* remove_audio_data: source_configs.lock().remove(&id); the guard drops
RemoveConfigEntry(t, id) ==
    /\ regPc[t] = "idle"
    /\ Known(id)
    /\ srcCfg' = Restrict(srcCfg, DOMAIN srcCfg \ {id})
    /\ regPc' = [regPc EXCEPT ![t] = "remove"]
    /\ regId' = [regId EXCEPT ![t] = id]
    /\ UNCHANGED <<storage, hasSpatial, pipeVars, syncVars, lifeVars, nextId,
                   returned, countVars, ratio, effects, block, calcVars, pushFailed, hostRet>>

\* remove_audio_data: audio_data_storage.lock().remove(&id) and the return
RemoveDataEntry(t) ==
    /\ regPc[t] = "remove"
    /\ storage' = Restrict(storage, DOMAIN storage \ {regId[t]})
    /\ hostRet' = Ret("remove", regId[t], regId[t] \in DOMAIN storage)
    /\ regPc' = [regPc EXCEPT ![t] = "idle"]
    /\ UNCHANGED <<srcCfg, hasSpatial, pipeVars, syncVars, lifeVars, nextId,
                   returned, regId, countVars, ratio, effects, block, calcVars, pushFailed>>

NextConfig ==
    \/ \E t \in RegThreads : RegisterMint(t)
    \/ \E t \in RegThreads : RegisterInsertData(t)
    \/ \E t \in RegThreads, cfg \in Cfgs : RegisterInsertConfig(t, cfg)
    \/ \E t \in RegThreads, id \in AllIds : UpdateConfigCheck(t, id)
    \/ \E t \in RegThreads, cfg \in Cfgs : UpdateConfigInsert(t, cfg)
    \/ \E t \in RegThreads, id \in AllIds : RemoveConfigEntry(t, id)
    \/ \E t \in RegThreads : RemoveDataEntry(t)

SpecConfig == InitWorld /\ [][NextConfig]_vars

\* ------------------------------------- the two render paths side by side
\* the same buffer of 0..MaxFrames frames registered twice, source 1 played
\* with a non-spatial config and source 2 with a spatial one, same loop mode
InitPaths ==
    /\ PipelineIdle
    /\ Started
    /\ hasSpatial = TRUE
    /\ ratio = 1
    /\ hostRet = Ret("start", 0, TRUE)
    /\ nextId = NumMixIds + 1
    /\ returned = [k \in 1..(NumMixIds + 1) |-> k - 1]
    /\ srcCfg = [i \in MixIds |-> IF i = 1 THEN "NonSpatial" ELSE "Spatial"]
    /\ \E total \in 0..MaxFrames, mode \in Modes :
        /\ storage = [i \in MixIds |-> total]
        /\ active = [i \in MixIds |->
                        Resume(NewInstance(total, srcCfg[i], mode))]

SpecPaths == InitPaths /\ [][NextMix]_vars

\* ------------------------------------- buffers removed while commands run
\* as Init, with one three-frame non-spatial source and no spatial processor
InitRemove ==
    /\ Registered({MaxFrames}, {"NonSpatial"})
    /\ hasSpatial = FALSE
    /\ ratio = 1
    /\ Constructed
    /\ Started
    /\ hostRet = Ret("start", 0, TRUE)

\* the host also removes buffers from the registry
NextRemove ==
    \/ Next
    \/ \E id \in Ids : RemoveAudioData(id)

SpecRemove == InitRemove /\ [][NextRemove]_vars

\* ------------------------------------------------------------- claims
IssuedPlay(id, mode) ==
    \E k \in 1..Len(issued) :
        issued[k].op = "Play" /\ issued[k].id = id /\ issued[k].mode = mode

\* commands taken from the channel whose dispatch is over (applied or discarded)
DispatchedCount ==
    Len(issued) - Len(cmdq) - (IF t3pc = "apply" THEN 1 ELSE 0)

PlayPausePlay(a) ==
    /\ storage[a] > 0
    /\ Len(issued) = 3
    /\ issued[1].op = "Play" /\ issued[1].id = a
    /\ issued[2] = PauseCmd(a)
    /\ issued[3].op = "Play" /\ issued[3].id = a

\* C1: commands apply in issue order; when the dispatch of the third of
\* Play(a), Pause(a), Play(a) (a registered and non-empty) is over, instance a
\* is Playing.
C1_PlayPausePlayEndsPlaying ==
    [][\A a \in Ids :
        (PlayPausePlay(a) /\ DispatchedCount = 2 /\ DispatchedCount' = 3)
            => (a \in DOMAIN active' /\ active'[a].state = "Playing")]_vars

\* C2: a Play applied to a Paused instance leaves its cursor where the Pause
\* left it.
C2_ResumeRestoresCursor ==
    [][\A a \in Ids :
        (t3pc = "apply" /\ t3pc' = "recv" /\ t3cmd.op = "Play" /\ t3cmd.id = a
            /\ a \in DOMAIN active /\ active[a].state = "Paused")
            => active'[a].cur = active[a].cur]_vars

OnlyPlayOnce(a) ==
    /\ Len(issued) = 1
    /\ issued[1].op = "Play" /\ issued[1].id = a /\ issued[1].mode = "Once"
    /\ storage[a] > 0

\* C3: after a single Play(a, Once) of a non-empty source exactly one
\* SourceCompleted{a} is produced: never two, and once the command has been
\* dispatched the instance leaves the active map only with its event.
C3_ExactlyOneCompleted ==
    \A a \in Ids :
        OnlyPlayOnce(a) =>
            /\ completed[a] + pendC[a] <= 1
            /\ (DispatchedCount = 1 /\ a \notin DOMAIN active)
                    => completed[a] + pendC[a] = 1

\* C4 (as claimed): a SourceCompleted{a} (here of a non-empty source) is sent
\* only if some Play(a, Once) was issued with no Stop(a) issued after it, and
\* the instance is then Stopped (or already dropped as Stopped).
C4_CompletedOnlyUnstopped ==
    [][\A a \in Ids :
        (completed'[a] > completed[a] /\ storage[a] > 0) =>
            /\ \E k \in 1..Len(issued) :
                    /\ issued[k].op = "Play" /\ issued[k].id = a
                    /\ issued[k].mode = "Once"
                    /\ \A j \in (k + 1)..Len(issued) : issued[j] # StopCmd(a)
            /\ (a \in DOMAIN active' => active'[a].state = "Stopped")]_vars

\* C4 (amended): a SourceCompleted{a} is sent only after a Play(a, Once) was
\* issued, and the mixer pass that collected it found the instance of an
\* applied Play(a, Once), no Stop(a) or StopAll applied since, Stopped.
C4_CompletedAtDetection ==
    [][\A a \in Ids :
        /\ completed'[a] > completed[a] =>
                (IssuedPlay(a, "Once") /\ completed'[a] = completed[a] + pendC[a])
        /\ pendC'[a] > pendC[a] =>
                /\ a \in DOMAIN active /\ a \in DOMAIN active'
                /\ active'[a].state = "Stopped"
                /\ active'[a].mode = "Once"
                /\ lastCmd[a] = "PlayOnce"
                /\ pendC'[a] = pendC[a] + 1]_vars

C4_Witness ==
    \E a \in Ids :
        /\ completed[a] > 0
        /\ \E k \in 1..Len(issued) : issued[k] = StopCmd(a)

\* C5 (as claimed): a SourceLooped{a} (here of a non-empty source) is sent only
\* after a Play(a, Infinite) was issued, and when it is sent the instance is
\* Playing with cursor 0.
C5_LoopedAtFrameZero ==
    [][\A a \in Ids :
        (looped'[a] > looped[a] /\ storage[a] > 0) =>
            /\ IssuedPlay(a, "Infinite")
            /\ a \in DOMAIN active'
            /\ active'[a].state = "Playing"
            /\ active'[a].cur = 0]_vars

\* C5 (amended): a SourceLooped{a} is sent only after a Play(a, Infinite) was
\* issued, and the restart step of the mixer pass that collected it leaves
\* the instance Playing with cursor 0.
C5_LoopedAtRestart ==
    [][\A a \in Ids :
        /\ looped'[a] > looped[a] =>
                (IssuedPlay(a, "Infinite") /\ looped'[a] = looped[a] + pendL[a])
        /\ pendL'[a] > pendL[a] =>
                /\ a \in DOMAIN active'
                /\ active'[a].state = "Playing"
                /\ active'[a].cur = 0
                /\ active'[a].mode = "Infinite"
                /\ lastCmd[a] = "PlayInfinite"]_vars

C5_Witness ==
    \E a \in Ids :
        /\ looped[a] > 0
        /\ a \in DOMAIN active
        /\ active[a].cur > 0

InFlight(a, mode) ==
    IF a \in DOMAIN active /\ active[a].flag /\ active[a].mode = mode THEN 1 ELSE 0

\* C6: every time the cursor of an Infinite instance reaches the end of its
\* buffer exactly one SourceLooped is collected and sent and no
\* SourceCompleted; SourceCompleted counts the ends of Once instances only.
C6_OneLoopedPerEnd ==
    \A a \in Ids :
        /\ looped[a] + pendL[a] + InFlight(a, "Infinite") = endsInf[a]
        /\ completed[a] + pendC[a] + InFlight(a, "Once") = endsOnce[a]

C6_Witness ==
    \E a \in Ids : looped[a] = 2 /\ endsInf[a] = 2 /\ completed[a] = 0

\* C7: a Playing zero-frame Once instance is Stopped with its SourceCompleted
\* collected by the end-flag loop of the first mixer pass that sees it.
C7_EmptyBufferCompletes ==
    \A a \in DOMAIN active :
        (t2pc = "checked" /\ active[a].total = 0 /\ active[a].mode = "Once"
            /\ active[a].state # "Paused")
            => (active[a].state = "Stopped" /\ pendC[a] > 0)

PlayThenStop(a) ==
    /\ storage[a] > 0
    /\ Len(issued) = 2
    /\ issued[1].op = "Play" /\ issued[1].id = a
    /\ issued[2] = StopCmd(a)

C9_CursorInRange ==
    \A a \in DOMAIN active : 0 <= active[a].cur /\ active[a].cur <= active[a].total

\* the spatial path advanced by a full block with fewer frames left
C9_Witness ==
    \E a \in DOMAIN active :
        /\ t2pc = "filled"
        /\ active[a].cfg = "Spatial"
        /\ active[a].flag
        /\ active[a].total % BlockSize # 0

\* C10: no instance carries the end flag outside a mixer pass: the flag is
\* set only while the pass holds the lock and is cleared by its end-flag
\* loop, before the lock is released, also when the spatial processor failed.
C10_EndFlagTransient ==
    (lock # "T2" \/ t2pc = "checked") => \A a \in DOMAIN active : ~active[a].flag

\* after the end-flag loop of a pass whose spatial processing returned Err, an
\* instance that ended in this pass
C10_Witness ==
    \E a \in DOMAIN active :
        /\ t2pc = "checked"
        /\ passErr
        /\ active[a].state = "Stopped"
        /\ ~active[a].flag

\* the callback finishes the dispatch of a Stop(a) that found an instance
StopApplied(a) ==
    /\ t3pc = "apply" /\ t3pc' = "recv"
    /\ t3cmd = StopCmd(a)
    /\ a \in DOMAIN active

C12_CallbackNeverWaits == ~t3Waited

\* C13: the render thread never waits on a lock: the listener pose and the
\* other shared state are read with try operations; t2Waited records a
\* lock() on a mutex that a host thread holds.
C13_RenderNeverWaits == ~t2Waited

\* C14: at most one render thread of the engine is alive at any time, and
\* after a start() that returned an error the engine is stopped and no render
\* thread runs.
C14_AtMostOneRenderThread ==
    /\ RenderThreads <= 1
    /\ hostRet = Ret("start", 0, FALSE) => (~isRunning /\ RenderThreads = 0)

\* C15: when stop() has returned, is_running is false, the stream is dropped,
\* and no render thread is left: the thread saw the shutdown flag, left its
\* loop and was joined.
C15_StopJoinsRenderThread ==
    hostRet.op = "stop" =>
        /\ ~isRunning
        /\ ~streamOpen
        /\ ~renderHandle
        /\ RenderThreads = 0

\* some instance's cursor moves forward in this step
CursorAdvances ==
    \E a \in DOMAIN active \cap DOMAIN active' : active'[a].cur > active[a].cur

\* C16: a cursor moves forward only in the fill step of a mixer pass; the
\* render loop enters generate_samples only from an iteration that saw the
\* ring below 4 x block_size with a vacant slot; and while the ring is full
\* no pass is under way, so no cursor moves.
C16_CursorsAdvanceOnlyInGatedPasses ==
    /\ [][CursorAdvances =>
            /\ t2pc = "gen" /\ t2pc' = "filled"
            /\ lock = "free" /\ lock' = "T2"
            /\ generated < needed]_vars
    /\ [][(t2pc = "idle" /\ t2pc' = "gen") =>
            /\ ring < 4 * BlockSize
            /\ ring < RingCap
            /\ needed' = Min(RingCap - ring, BlockSize * 2)]_vars
    /\ [](ring = RingCap => t2pc \in {"idle", "emit"})
    /\ [][ring = RingCap => ~CursorAdvances]_vars

\* the ring is full, the render thread is between iterations, and an
\* instance stands at a cursor that a pass moved forward
C16_Witness ==
    /\ ring = RingCap
    /\ t2pc = "idle"
    /\ \E a \in DOMAIN active : active[a].cur > 0 /\ active[a].state = "Playing"

\* C17: no try_push fails in a run in which the device callback has drained
\* frames, whatever the block size and the rate ratio.
C17_NoPushFailsWhileDraining == pushFailed => popped = 0

\* C18: in a callback that runs out of frames every slot after the last popped
\* frame is silence, the processed-frames counter grows by the number of
\* frames popped in that callback, and so the counter equals the number of
\* frames ever popped.
C18_CounterCountsPopped ==
    /\ [](framesProcessed = popped)
    /\ [][IF ring' < ring
            THEN framesProcessed' - framesProcessed = ring - ring'
            ELSE framesProcessed' = framesProcessed]_vars
    /\ [](\A i \in 1..DevFrames :
            /\ CallbackOutput(ring)[i] = "frame" <=> i <= Consumed(ring)
            /\ CallbackOutput(ring)[i] = "silence" <=> i > ring)

\* a callback found fewer frames than the device asked for: it counted the
\* frames it popped and left the ring empty
C18_Witness ==
    /\ framesProcessed > 0
    /\ framesProcessed < DevFrames
    /\ ring = 0
    /\ popped = framesProcessed

\* a host call of play or update_source_config naming id returns in this step
UnknownCallReturns(id) ==
    /\ id \notin DOMAIN storage
    /\ hostRet' # hostRet
    /\ hostRet'.id = id
    /\ hostRet'.op \in {"Play", "UpdateConfig"}

\* C19: play and update_source_config called with an id that is not in the
\* registry return an error, enqueue no command and leave the registry and
\* the stored configs as they were.
C19_UnknownIdRejected ==
    [][\A id \in AllIds :
        UnknownCallReturns(id) =>
            /\ ~hostRet'.ok
            /\ cmdq' = cmdq
            /\ issued' = issued
            /\ storage' = storage
            /\ srcCfg' = srcCfg]_vars

\* update_source_config was refused for an id that register_audio had
\* returned and remove_audio_data has removed since, after a play that went
\* through
C19_Witness ==
    \E id \in AllIds :
        /\ hostRet = Ret("UpdateConfig", id, FALSE)
        /\ \E i \in 1..Len(returned) : returned[i] = id
        /\ id \notin DOMAIN storage
        /\ id \notin DOMAIN srcCfg
        /\ Len(issued) = 1
        /\ issued[1].op = "Play"

\* C20: the ids register_audio has returned are pairwise different, removed
\* sources included, and an id minted by a call still running differs from
\* every returned id and from the id of every other running call.
C20_RegisteredIdsUnique ==
    /\ \A i, j \in 1..Len(returned) : i # j => returned[i] # returned[j]
    /\ \A t \in RegThreads :
        regPc[t] # "idle" =>
            /\ \A i \in 1..Len(returned) : returned[i] # regId[t]
            /\ \A u \in RegThreads \ {t} : regPc[u] # "idle" => regId[u] # regId[t]

\* two concurrent register_audio calls returned in the reverse of the order
\* in which they minted their ids, and the first returned source is removed
C20_Witness ==
    /\ Len(returned) = 2
    /\ returned[1] > returned[2]
    /\ returned[1] \notin DOMAIN storage
    /\ returned[2] \in DOMAIN storage

\* the fill step of a mixer pass
FillStep == t2pc = "gen" /\ t2pc' = "filled"

\* C22: after the fill loops of a pass that has non-spatial and spatial
\* Playing instances and a working spatial processor, every frame of the
\* world block is the non-spatial mix plus the spatial output.
C22_SpatialSummedOnTop ==
    [][(/\ FillStep
        /\ hasSpatial
        /\ ~passErr'
        /\ NonSpatialIds(active) # {}
        /\ SpatialIds(active) # {})
       => block' = SpatialSummed(NonSpatialMix(active), SpatialOut(active))]_vars

\* C23: in a pass that runs the spatial processor, process_spatial_sources
\* returns Ok, at most one spatial source is left where it was, and every
\* spatial source whose cursor moved has its frames in the world block.
C23_FailureSkipsOnlyThatSource ==
    [][(FillStep /\ hasSpatial /\ SpatialIds(active) # {}) =>
        /\ ~passErr'
        /\ Cardinality({a \in SpatialIds(active) : active'[a].cur = active[a].cur}) <= 1
        /\ \A a \in SpatialIds(active) :
            active'[a].cur # active[a].cur =>
                \A i \in 1..SpatialFrames(active[a]) :
                    Term("sp", a, active[a].cur + i - 1) \in block'[i]]_vars

\* C24: without a spatial processor the engine runs and a pass succeeds: the
\* world block holds the frames of every non-spatial Playing instance and
\* nothing of a spatial one, and the non-spatial instances advance as usual.
C24_NoProcessorSilence ==
    [][(FillStep /\ ~hasSpatial) =>
        /\ ~passErr'
        /\ \A i \in 1..BlockSize : \A t \in block'[i] : t[1] = "ns"
        /\ \A a \in NonSpatialIds(active) :
            /\ active'[a] = FillBuffer(active[a])
            /\ \A i \in 1..FramesFilled(active[a]) :
                Term("ns", a, active[a].cur + i - 1) \in block'[i]
        /\ \A a \in SpatialIds(active) : active'[a] = active[a]]_vars

\* a pass without a processor has mixed a non-spatial instance while a
\* spatial instance is Playing
C24_Witness ==
    /\ ~hasSpatial
    /\ isRunning
    /\ t2pc = "filled"
    /\ \E a \in DOMAIN active : active[a].cfg = "Spatial" /\ active[a].state = "Playing"
    /\ \E a \in DOMAIN active :
        /\ active[a].cfg = "NonSpatial"
        /\ Term("ns", a, 0) \in block[1]
        /\ Term("ns", a, 1) \in block[2]

\* C21: register_audio of a buffer at the world rate stores the buffer as it
\* is (get_audio_data returns the input samples), and resampling to the
\* buffer's own rate returns the same samples.
C21_SameRateStoredUnchanged ==
    (io.fn = "register_audio" /\ io.in.rate = io.world) =>
        /\ io.out = io.in
        /\ AudioResample(io.in, io.world) = io.in
        /\ BatchResampleInterleaved(io.in.rate, io.world, io.in.samples) = io.in.samples

\* a three-frame buffer at the world rate is registered and in the registry
C21_Witness ==
    /\ io.fn = "register_audio"
    /\ io.in.rate = io.world
    /\ Len(io.in.samples) = MaxIn
    /\ io.id \in DOMAIN storage
    /\ storage[io.id] = MaxIn
    /\ io.out.samples = <<1, 2, 3>>

\* a call of process_interleaved on the resampler returns in this step
ProcessReturns == rs.kind = "streaming" /\ io'.fn = "process_interleaved"

\* C25: process_interleaved reports as consumed the frames it removed from
\* the front of the input buffer, also when the last chunk was cut to fit;
\* the destination past frames_written is zero; input short of a chunk stays
\* buffered and gives (0, 0).
C25_ConsumedIsRemoved ==
    [][ProcessReturns =>
        LET all == rs.buf \o io'.in
        IN  /\ io'.consumed = Len(all) - Len(rs'.buf)
            /\ rs'.buf = SubSeq(all, io'.consumed + 1, Len(all))
            /\ io'.written <= Len(io'.dst)
            /\ \A i \in (io'.written + 1)..Len(io'.dst) : io'.dst[i] = 0
            /\ Len(all) < rs.needed =>
                (io'.written = 0 /\ io'.consumed = 0 /\ rs'.buf = all)]_vars

\* a call filled its destination with a chunk cut short, and left zeros
\* nowhere; another one wrote nothing into a destination of three frames
C25_Witness ==
    /\ io.fn = "process_interleaved"
    /\ rs.chunk = BlockSize
    /\ io.written = MaxCap
    /\ Len(io.dst) = MaxCap
    /\ io.consumed >= 2 * BaseNeeded(rs.src, rs.tgt, rs.chunk)
    /\ rs.buf # <<>>

\* C26: at equal rates process_interleaved passes every block through: fed a
\* block of chunk frames with room for it, it writes those frames, in order
\* and unchanged.
C26_SameRatePassThrough ==
    [][(/\ ProcessReturns
        /\ rs.src = rs.tgt
        /\ Len(io'.in) = rs.chunk
        /\ Len(io'.dst) >= rs.chunk)
       => (/\ io'.written = Len(io'.in)
           /\ SubSeq(io'.dst, 1, io'.written) = io'.in)]_vars

\* a constructor of a resampler has returned
ConstructorReturned == io.fn \in {"StreamingNew", "BatchNew"}

\* C27 (as claimed): a zero rate or a zero channel count gives an AudioFormat
\* error and no resampler; every other combination is accepted.
C27_ZeroRejectedElseAccepted ==
    ConstructorReturned =>
        IF io.src = 0 \/ io.tgt = 0 \/ io.ch = 0
        THEN io.out = "AudioFormat" /\ (io.fn = "StreamingNew" => rs = NoResampler)
        ELSE io.out = "Ok"

\* C27 (amended): a zero rate or a zero channel count gives an AudioFormat
\* error and no resampler; so does, for the streaming resampler, an output
\* frame count of zero; every other combination passes the validation.
C27_ZeroRejected ==
    ConstructorReturned =>
        IF io.src = 0 \/ io.tgt = 0 \/ io.ch = 0
        THEN io.out = "AudioFormat" /\ (io.fn = "StreamingNew" => rs = NoResampler)
        ELSE IF io.fn = "StreamingNew" /\ io.frames = 0
        THEN io.out = "AudioFormat" /\ rs = NoResampler
        ELSE io.out = "Ok" /\ (io.fn = "StreamingNew" => rs.kind = "streaming")

\* the streaming constructor refused non-zero rates and channels because the
\* output frame count was zero
C27_Witness ==
    /\ io.fn = "StreamingNew"
    /\ io.src = MaxRate /\ io.tgt = 1 /\ io.ch = MaxChannels
    /\ io.frames = 0
    /\ io.out = "AudioFormat"
    /\ rs = NoResampler

\* the callback applies the Play it holds, the registry holding a buffer for
\* its id
PlayApplied ==
    /\ t3pc = "apply" /\ t3pc' = "recv"
    /\ t3cmd.op = "Play"
    /\ t3cmd.id \in DOMAIN storage

C29_DequeuedIsApplied ==
    [][(cmdq # <<>> /\ cmdq' = Tail(cmdq))
        => (t3pc' = "apply" /\ t3cmd' = Head(cmdq))]_vars

\* C30: the render thread drains the command channel at the start of each
\* render iteration: when the iteration goes on to the mixer no command is
\* pending.
C30_RenderIterationDrains ==
    [][(t2pc = "idle" /\ t2pc' = "gen") => cmdq' = <<>>]_vars

\* the callback applies a command whose target cannot be resolved
UnresolvedApplied ==
    /\ t3pc = "apply" /\ t3pc' = "recv"
    /\ \/ t3cmd.op = "Play" /\ t3cmd.id \notin DOMAIN storage
       \/ t3cmd.op \in {"Pause", "Stop", "UpdateConfig"} /\ t3cmd.id \notin DOMAIN active

\* C31: a command whose target cannot be resolved leaves the active-playback
\* map as it was: Play without a buffer in the registry (an instance existing
\* or not), Pause, Stop and UpdateConfig without an instance; UpdateConfig
\* never creates an instance.
C31_UnresolvedCommandDropped ==
    [][/\ UnresolvedApplied => active' = active
       /\ (t3pc = "apply" /\ t3pc' = "recv" /\ t3cmd.op = "UpdateConfig")
            => DOMAIN active' = DOMAIN active]_vars

\* the callback holds a Play for an id whose buffer was removed while an
\* instance for the id is in mid-buffer
C31_Witness ==
    /\ t3pc = "apply"
    /\ t3cmd.op = "Play"
    /\ t3cmd.id \notin DOMAIN storage
    /\ t3cmd.id \in DOMAIN active
    /\ active[t3cmd.id].cur > 0

\* play_from_beginning runs on instance a in this step: in the Play arm, or
\* in the mixer's restart of an Infinite instance whose end flag is set
PlayFromBeginningRuns(a) ==
    \/ PlayApplied /\ t3cmd.id = a
    \/ /\ t2pc = "filled" /\ t2pc' = "checked"
       /\ active[a].flag /\ active[a].mode = "Infinite"

\* C32: the cursor of an instance decreases only by the reset to 0 of
\* play_from_beginning, and while the instance is Paused or Stopped it does
\* not change otherwise: mixer passes skip instances that are not Playing.
C32_CursorMonotone ==
    [][\A a \in DOMAIN active \cap DOMAIN active' :
        /\ active'[a].cur < active[a].cur
            => (PlayFromBeginningRuns(a) /\ active'[a].cur = 0)
        /\ (active[a].state # "Playing" /\ active'[a].cur # active[a].cur)
            => (PlayFromBeginningRuns(a) /\ active'[a].cur = 0)]_vars

\* a mixer pass with a spatial processor has filled its block while a spatial
\* instance sits Paused in mid-buffer
C32_Witness ==
    /\ hasSpatial
    /\ t2pc = "filled"
    /\ ~passErr
    /\ \E a \in DOMAIN active :
        /\ active[a].state = "Paused"
        /\ active[a].cfg = "Spatial"
        /\ active[a].cur > 0
        /\ active[a].cur < active[a].total

\* C33: an instance whose cursor equals total_frames is Stopped, for both
\* loop modes and every buffer length; an Infinite instance stopped at the end
\* becomes Playing again only in the mixer's restart step, with its cursor
\* reset.
C33_StoppedAtEnd ==
    [][\A a \in DOMAIN active' :
        /\ active'[a].cur = active'[a].total => active'[a].state = "Stopped"
        /\ (/\ a \in DOMAIN active
            /\ active[a].cur = active[a].total
            /\ active[a].mode = "Infinite"
            /\ active[a].state = "Stopped"
            /\ active'[a].state = "Playing")
           => (t2pc = "filled" /\ t2pc' = "checked" /\ active'[a].cur = 0)]_vars

\* the terms instance a has in frame i of a block
TermsOf(blk, a, i) == {t \in blk[i] : t[2] = a}

\* C34: an Infinite instance that reaches the end of its data in a mixer pass
\* contributes to the block only its frames up to the end; the restart puts
\* its cursor to 0 and leaves the block alone, and the cursor is still 0 when
\* the pass returns.
C34_NoWrapInBlock ==
    [][/\ FillStep =>
            \A a \in PlayingIds(active) :
                (active'[a].flag /\ active[a].mode = "Infinite") =>
                    \A i \in 1..BlockSize :
                        /\ TermsOf(block', a, i) \subseteq
                                {Term(k, a, active[a].cur + i - 1) : k \in {"ns", "sp"}}
                        /\ active[a].cur + i - 1 >= active[a].total
                                => TermsOf(block', a, i) = {}
                        /\ (/\ a \in NonSpatialIds(active)
                            /\ ~hasSpatial \/ SpatialIds(active) = {}
                            /\ active[a].cur + i - 1 < active[a].total)
                                => Term("ns", a, active[a].cur + i - 1) \in block'[i]
       /\ (t2pc = "filled" /\ t2pc' = "checked") =>
            /\ block' = block
            /\ \A a \in DOMAIN active :
                (active[a].flag /\ active[a].mode = "Infinite") =>
                    (active'[a].cur = 0 /\ active'[a].state = "Playing")
       /\ (t2pc = "checked" /\ t2pc' # "checked") =>
            \A a \in DOMAIN active :
                (active[a].mode = "Infinite" /\ active[a].cur = 0 /\ active[a].total > 0)
                    => (a \in DOMAIN active' /\ active'[a].cur = 0)]_vars

\* the pass is about to return: an Infinite instance was restarted after it
\* gave the last frame of its buffer to the first frame of the block
C34_Witness ==
    /\ t2pc = "checked"
    /\ \E a \in DOMAIN active :
        /\ active[a].mode = "Infinite"
        /\ active[a].cur = 0
        /\ active[a].state = "Playing"
        /\ active[a].total = MaxFrames
        /\ Term("ns", a, MaxFrames - 1) \in block[1]
        /\ TermsOf(block, a, 2) = {}

\* C35: when a mixer pass or a command removes a spatial instance from the
\* active-playback map, the effects map holds no entry for its id afterwards.
C35_EffectsDestroyedOnDrop ==
    [][\A a \in DOMAIN active :
        (a \notin DOMAIN active' /\ active[a].cfg = "Spatial")
            => a \notin effects']_vars

\* the render thread's mixer pass finds the active-playback mutex held
LockFailPass ==
    /\ t2pc = "gen"
    /\ lock # "free"
    /\ t2pc' # t2pc \/ generated' # generated \/ ring' # ring

\* C36: a mixer pass whose try_lock on the active-playback map fails changes
\* no instance, reports no completed or looped id, and pushes no frame to
\* the ring buffer.
C36_LockFailSkipsTick ==
    [][LockFailPass =>
        /\ active' = active
        /\ pendC' = pendC
        /\ pendL' = pendL
        /\ ring' = ring
        /\ generated' = generated]_vars

\* C37: a source on the non-spatial path and the same source on the spatial
\* path, at the same cursor of buffers of the same length, leave a mixer pass
\* with the same end flag and the same state, for every buffer length.
C37_PathsEndInSameBlock ==
    [][(FillStep /\ hasSpatial /\ ~passErr') =>
        \A a \in NonSpatialIds(active), b \in SpatialIds(active) :
            (active[a].cur = active[b].cur /\ active[a].total = active[b].total)
                => /\ active'[a].flag = active'[b].flag
                   /\ active'[a].state = active'[b].state
                   /\ active'[a].cur = active'[b].cur]_vars

\* C38: in a mixer pass that took the lock, every instance Playing at the
\* start has its cursor advanced, or leaves the Playing state, or is finished
\* and so removed by the retain of the same pass; spatial instances included
\* when the processor is missing or returns an error.
C38_PlayingMakesProgress ==
    [][FillStep =>
        \A a \in PlayingIds(active) :
            \/ active'[a].cur > active[a].cur
            \/ active'[a].state # "Playing"
            \/ IsFinished(active'[a])]_vars

\* the callback is inside lock() on the registry mutex, holding the
\* active-playback guard
T3WaitsRegistry == t3pc = "apply" /\ t3cmd.op = "Play" /\ regLock = "T1"

\* the render thread is inside lock() on the listener mutex
T2WaitsListener ==
    t2Alive /\ ~shutdown /\ t2pc = "idle" /\ hasSpatial /\ listenerLock = "T1"

C40_ConfigsMatchStorage ==
    (\A t \in RegThreads : regPc[t] = "idle") => DOMAIN srcCfg = DOMAIN storage

====
